---- MODULE Spec2Model ----
(***************************************************************************)
(* Theming (plotnine/themes/theme.py, plotnine/themes/themeable.py) and    *)
(* the discrete position scale (ggplot/scales/scale_xy.py).                *)
(*                                                                         *)
(* Values.  A property value is an integer; NoneV stands for Python's      *)
(* None.  A properties dict is a function whose DOMAIN is its key set.     *)
(* A themeable is a slot [present, blank, cell]: cell names the dict       *)
(* object that holds its _properties, so that two themeables built from    *)
(* one element object share one cell (themeable.__init__ keeps the         *)
(* element's dict, it does not copy it).                                   *)
(***************************************************************************)
EXTENDS Integers, Sequences, FiniteSets, TLC

(***************************************************************************)
(* The class statements of the line family and of dpi, in the order of     *)
(* their definition in themeable.py.                                       *)
(***************************************************************************)
ClassOrder ==
    << "axis_line_x", "axis_line_y", "axis_line",
       "axis_ticks_minor_x", "axis_ticks_minor_y",
       "axis_ticks_major_x", "axis_ticks_major_y",
       "axis_ticks_major", "axis_ticks_minor",
       "axis_ticks_x", "axis_ticks_y", "axis_ticks",
       "legend_ticks",
       "panel_grid_major_x", "panel_grid_major_y",
       "panel_grid_minor_x", "panel_grid_minor_y",
       "panel_grid_major", "panel_grid_minor", "panel_grid",
       "line", "dpi" >>

Names == { ClassOrder[i] : i \in DOMAIN ClassOrder }

\* The bases of each class, themeable itself left out.
Bases ==
    [ n \in Names |->
        CASE n = "axis_line"        -> << "axis_line_x", "axis_line_y" >>
          [] n = "axis_ticks_major" -> << "axis_ticks_major_x", "axis_ticks_major_y" >>
          [] n = "axis_ticks_minor" -> << "axis_ticks_minor_x", "axis_ticks_minor_y" >>
          [] n = "axis_ticks_x"     -> << "axis_ticks_major_x", "axis_ticks_minor_x" >>
          [] n = "axis_ticks_y"     -> << "axis_ticks_major_y", "axis_ticks_minor_y" >>
          [] n = "axis_ticks"       -> << "axis_ticks_major", "axis_ticks_minor" >>
          [] n = "panel_grid_major" -> << "panel_grid_major_x", "panel_grid_major_y" >>
          [] n = "panel_grid_minor" -> << "panel_grid_minor_x", "panel_grid_minor_y" >>
          [] n = "panel_grid"       -> << "panel_grid_major", "panel_grid_minor" >>
          [] n = "line"             -> << "axis_line", "axis_ticks", "panel_grid", "legend_ticks" >>
          [] OTHER                  -> << >> ]

Range(s) == { s[i] : i \in DOMAIN s }

IndexOf(s, x) == CHOOSE i \in DOMAIN s : s[i] = x

RECURSIVE SelectNonEmpty(_)
SelectNonEmpty(ls) ==
    IF ls = << >> THEN << >>
    ELSE IF Head(ls) = << >> THEN SelectNonEmpty(Tail(ls))
    ELSE << Head(ls) >> \o SelectNonEmpty(Tail(ls))

\* Python's C3 merge: the first head that is in the tail of no list, removed
\* from every list, until the lists are empty.
RECURSIVE C3Merge(_)
C3Merge(ls) ==
    LET live == SelectNonEmpty(ls) IN
    IF live = << >> THEN << >>
    ELSE
      LET good(i) == \A j \in DOMAIN live : Head(live[i]) \notin Range(Tail(live[j]))
          k == CHOOSE i \in DOMAIN live :
                  good(i) /\ \A j \in 1..(i - 1) : ~good(j)
          h == Head(live[k])
          drop(l) == IF Head(l) = h THEN Tail(l) ELSE l
      IN << h >> \o C3Merge([ i \in DOMAIN live |-> drop(live[i]) ])

\* cls.mro() without its last two entries (themeable, object).
RECURSIVE Linearize(_)
Linearize(n) ==
    << n >> \o C3Merge([ i \in DOMAIN Bases[n] |-> Linearize(Bases[n][i]) ]
                        \o << Bases[n] >>)

mro == [ n \in Names |-> Linearize(n) ]

\* RegistryHierarchyMeta.__init__, for the classes up to ClassOrder[k]: each
\* class appends its name to its own list and to the list of every class in
\* the mro of each of its bases.
RECURSIVE HierarchyUpTo(_)
HierarchyUpTo(k) ==
    IF k = 0 THEN [ n \in Names |-> << >> ]
    ELSE
      LET prev == HierarchyUpTo(k - 1)
          c == ClassOrder[k]
          hits(n) == Cardinality({ i \in DOMAIN Bases[c] : n \in Range(mro[Bases[c][i]]) })
          rep(n) == [ i \in 1..hits(n) |-> c ]
      IN [ n \in Names |->
             IF n = c THEN prev[n] \o << c >> ELSE prev[n] \o rep(n) ]

\* themeable._hierarchy
hierarchy == HierarchyUpTo(Len(ClassOrder))

Reverse(s) == [ i \in 1..Len(s) |-> s[Len(s) + 1 - i] ]

RECURSIVE Dedup(_, _)
Dedup(s, seen) ==
    IF s = << >> THEN << >>
    ELSE IF Head(s) \in seen THEN Dedup(Tail(s), seen)
    ELSE << Head(s) >> \o Dedup(Tail(s), seen \cup { Head(s) })

RECURSIVE ConcatReversed(_)
ConcatReversed(k) ==
    IF k = 0 THEN << >>
    ELSE ConcatReversed(k - 1) \o Reverse(hierarchy[ClassOrder[k]])

\* Themeables._dict: the order in which values() and items() list the names,
\* general before specific.
DictOrder == Dedup(ConcatReversed(Len(ClassOrder)), {})

(***************************************************************************)
(* Dicts, elements and themeables                                          *)
(***************************************************************************)
\* Python's None as a property value.
NoneV == -1

\* bool(v) of a property value
Truthy(v) == v # NoneV /\ v # 0

EmptyDict == [ k \in {} |-> 0 ]

\* dict.update
DictUpdate(d, o) ==
    [ k \in DOMAIN d \cup DOMAIN o |-> IF k \in DOMAIN o THEN o[k] ELSE d[k] ]

\* dict.get(k), None when the key is missing
DictGet(d, k) == IF k \in DOMAIN d THEN d[k] ELSE NoneV

NumNames == Len(ClassOrder)

NameIndex(n) == IndexOf(ClassOrder, n)

\* The key is not in the Themeables dict.
AbsentSlot == [ present |-> FALSE, blank |-> FALSE, cell |-> 0 ]

\* Themeables()
EmptyThemeables == [ slots |-> [ n \in Names |-> AbsentSlot ], heap |-> EmptyDict ]

PresentNames(ths) == { n \in Names : ths.slots[n].present }

\* th._properties of the themeable stored under n
PropertiesOf(ths, n) == ths.heap[ths.slots[n].cell]

\* element_line(**props), element_blank(): an element object carries the dict
\* of its properties.
ElementLine(props) == [ kind |-> "element", blank |-> FALSE, props |-> props ]

ElementBlank == [ kind |-> "element", blank |-> TRUE, props |-> EmptyDict ]

\* A plain value (int, float, str) given for a themeable.
Scalar(v) == [ kind |-> "scalar", blank |-> FALSE, props |-> [ value |-> v ] ]

\* themeable.__init__ / themeable.from_class_name: the themeable of an element
\* keeps the element's own dict (cell objCell), the themeable of a plain value
\* gets a dict of its own (cell ownCell).
NewThemeable(obj, objCell, ownCell) ==
    [ present |-> TRUE,
      blank   |-> obj.blank,
      cell    |-> IF obj.kind = "element" THEN objCell ELSE ownCell ]

\* themeable.is_blank
ThemeableIsBlank(slot) == slot.blank

\* Renaming of the dict objects: every dict is named by the first class (in
\* ClassOrder) whose themeable holds it, dicts no themeable holds are dropped.
\* Object identities carry no other meaning.
Canon(ths) ==
    LET P == PresentNames(ths)
        rep(n) == CHOOSE i \in 1..NumNames :
                     /\ ClassOrder[i] \in P
                     /\ ths.slots[ClassOrder[i]].cell = ths.slots[n].cell
                     /\ \A j \in 1..(i - 1) :
                           ~(/\ ClassOrder[j] \in P
                             /\ ths.slots[ClassOrder[j]].cell = ths.slots[n].cell)
        cells == { rep(n) : n \in P }
    IN [ slots |-> [ n \in Names |->
                       IF n \in P THEN [ ths.slots[n] EXCEPT !.cell = rep(n) ]
                       ELSE AbsentSlot ],
         heap  |-> [ c \in cells |-> PropertiesOf(ths, ClassOrder[c]) ] ]

\* deepcopy(other) seen from the collection it is merged into: the copy's
\* dicts are new objects, named apart from those of self (cells above
\* NumNames).
CopyApart(ths) ==
    [ slots |-> [ n \in Names |->
                    IF ths.slots[n].present
                    THEN [ ths.slots[n] EXCEPT !.cell = @ + NumNames ]
                    ELSE AbsentSlot ],
      heap  |-> [ c \in { d + NumNames : d \in DOMAIN ths.heap } |-> ths.heap[c - NumNames] ] ]

\* Both collections' dicts in one heap.
JoinHeaps(h1, h2) ==
    [ c \in DOMAIN h1 \cup DOMAIN h2 |-> IF c \in DOMAIN h1 THEN h1[c] ELSE h2[c] ]

(***************************************************************************)
(* Themeables.update                                                       *)
(***************************************************************************)
\* themeable.merge raises ValueError
MergeRaises(slot, new) == ThemeableIsBlank(slot) \/ ThemeableIsBlank(new)

\* themeable.merge: self._properties.update(other._properties), on the dict
\* object of self[key], whoever else holds it.
Merge(st, key, new) ==
    [ st EXCEPT !.heap[st.slots[key].cell] = DictUpdate(@, st.heap[new.cell]) ]

\* The body of the loop over new.__class__.mro()[1:-2].
UpdateChild(st, child, new) ==
    IF ~st.slots[child].present THEN st
    ELSE IF MergeRaises(st.slots[child], new)
         THEN [ st EXCEPT !.slots[child] = AbsentSlot ]
    ELSE Merge(st, child, new)

RECURSIVE UpdateChildren(_, _, _)
UpdateChildren(st, children, new) ==
    IF children = << >> THEN st
    ELSE UpdateChildren(UpdateChild(st, Head(children), new), Tail(children), new)

\* The try block after the loop: merge into self[new_key], or store new.
UpdateOwn(st, newKey, new) ==
    IF st.slots[newKey].present /\ ~MergeRaises(st.slots[newKey], new)
    THEN Merge(st, newKey, new)
    ELSE [ st EXCEPT !.slots[newKey] = new ]

\* Variant of UpdateOne that walks the more general classes of new (its
\* hierarchy list) in place of the classes it is composed of.
UpdateOneUpward(st, newKey, new) ==
    UpdateOwn(UpdateChildren(st, Tail(hierarchy[newKey]), new), newKey, new)

\* One round of the loop over other.values().
UpdateOne(st, newKey, new) ==
    UpdateOwn(UpdateChildren(st, Tail(mro[newKey]), new), newKey, new)

RECURSIVE UpdateLoop(_, _, _)
UpdateLoop(st, order, other) ==
    IF order = << >> THEN st
    ELSE IF ~other.slots[Head(order)].present
         THEN UpdateLoop(st, Tail(order), other)
    ELSE UpdateLoop(UpdateOne(st, Head(order), other.slots[Head(order)]),
                    Tail(order), other)

\* Themeables.update(other), other a collection that shares no dict with self.
ThemeablesUpdate(self, other) ==
    LET o == CopyApart(other)
        st == [ slots |-> self.slots, heap |-> JoinHeaps(self.heap, o.heap) ]
    IN Canon(UpdateLoop(st, DictOrder, o))

(***************************************************************************)
(* Themeables.getp, property, is_blank                                     *)
(***************************************************************************)
\* The loop of getp over hlist; found says whether a value was returned from
\* inside the loop.
RECURSIVE GetpLoop(_, _, _)
GetpLoop(ths, hlist, prop) ==
    IF hlist = << >> THEN [ found |-> FALSE, value |-> NoneV ]
    ELSE LET th == Head(hlist) IN
         IF ths.slots[th].present /\ prop \in DOMAIN PropertiesOf(ths, th)
         THEN [ found |-> TRUE, value |-> PropertiesOf(ths, th)[prop] ]
         ELSE GetpLoop(ths, Tail(hlist), prop)

\* The loop of getp when a None value is passed over.
RECURSIVE GetpLoopSkipNone(_, _, _)
GetpLoopSkipNone(ths, hlist, prop) ==
    IF hlist = << >> THEN [ found |-> FALSE, value |-> NoneV ]
    ELSE LET th == Head(hlist) IN
         IF /\ ths.slots[th].present
            /\ prop \in DOMAIN PropertiesOf(ths, th)
            /\ PropertiesOf(ths, th)[prop] # NoneV
         THEN [ found |-> TRUE, value |-> PropertiesOf(ths, th)[prop] ]
         ELSE GetpLoopSkipNone(ths, Tail(hlist), prop)

\* Variant of getp that treats a stored None as a missing property.
getpSkipNone(ths, name, prop, default) ==
    LET r == GetpLoopSkipNone(ths, hierarchy[name], prop)
    IN IF r.found THEN r.value ELSE default

\* Themeables.getp((name, prop), default); key == "value" compares the tuple
\* with a string, so scalar is always False and every stored value, None
\* included, is returned.
getp(ths, name, prop, default) ==
    LET r == GetpLoop(ths, hierarchy[name], prop)
    IN IF r.found THEN r.value ELSE default

\* Themeables.getp(name, default) with a str key
getpStr(ths, name, default) == getp(ths, name, "value", default)

\* Variant of property that takes None for its "not found" marker.
propertyNoneMarker(ths, name, key) ==
    LET r == GetpLoop(ths, hierarchy[name], key)
    IN [ raised |-> ~r.found \/ r.value = NoneV, value |-> r.value ]

\* Themeables.property(name, key): raised says KeyError.
property(ths, name, key) ==
    LET r == GetpLoop(ths, hierarchy[name], key)
    IN [ raised |-> ~r.found, value |-> r.value ]

RECURSIVE IsBlankLoop(_, _)
IsBlankLoop(ths, hlist) ==
    IF hlist = << >> THEN FALSE
    ELSE IF ths.slots[Head(hlist)].present
         THEN ThemeableIsBlank(ths.slots[Head(hlist)])
    ELSE IsBlankLoop(ths, Tail(hlist))

\* Variant of is_blank without the fall back along the hierarchy.
is_blankNoFallback(ths, name) ==
    IF ths.slots[name].present THEN ThemeableIsBlank(ths.slots[name]) ELSE FALSE

\* Themeables.is_blank(name)
is_blank(ths, name) == IsBlankLoop(ths, hierarchy[name])


(***************************************************************************)
(* theme                                                                   *)
(***************************************************************************)
\* default_rcparams; the values (strings and lists of font names) are opaque
\* and written as 1.
default_rcparams ==
    [ k \in { "axes.axisbelow", "font.sans-serif", "font.serif",
              "lines.antialiased", "patch.antialiased", "timezone" } |-> 1 ]

\* theme.__init__(complete, **kwargs): kwargs maps themeable names to object
\* ids, objs maps an object id to the object given.  Two names given the same
\* element object share its dict.
Theme(complete, kwargs, objs) ==
    [ complete |-> complete,
      is_setup |-> FALSE,
      rc       |-> IF complete THEN default_rcparams ELSE EmptyDict,
      ths      |-> Canon(
         [ slots |-> [ n \in Names |->
                         IF n \in DOMAIN kwargs
                         THEN NewThemeable(objs[kwargs[n]],
                                           NumNames + kwargs[n], NameIndex(n))
                         ELSE AbsentSlot ],
           heap  |-> [ c \in { NameIndex(n) : n \in DOMAIN kwargs }
                            \cup { NumNames + kwargs[n] : n \in DOMAIN kwargs } |->
                         IF c > NumNames THEN objs[c - NumNames].props
                         ELSE objs[kwargs[ClassOrder[c]]].props ] ]) ]

\* line.rcParams
LineRcParams(props) ==
    LET color == DictGet(props, "color")
        linewidth == DictGet(props, "linewidth")
        linestyle == DictGet(props, "linestyle")
        d1 == IF Truthy(color)
              THEN [ k \in { "axes.edgecolor", "xtick.color", "ytick.color",
                             "grid.color" } |-> color ]
              ELSE EmptyDict
        d2 == IF Truthy(linewidth)
              THEN [ k \in { "axes.linewidth", "xtick.major.width",
                             "xtick.minor.width", "ytick.major.width",
                             "ytick.minor.width", "grid.linewidth" } |-> linewidth ]
              ELSE EmptyDict
        d3 == IF Truthy(linestyle)
              THEN [ k \in { "grid.linestyle" } |-> linestyle ]
              ELSE EmptyDict
    IN DictUpdate(DictUpdate(d1, d2), d3)

\* dpi.rcParams
DpiRcParams(props) == [ k \in { "figure.dpi" } |-> props["value"] ]

\* themeable.rcParams of the themeable stored under n; only line and dpi (and
\* text, outside the modelled classes) override the empty default.
ThemeableRcParams(ths, n) ==
    IF n = "line" THEN LineRcParams(PropertiesOf(ths, n))
    ELSE IF n = "dpi" THEN DpiRcParams(PropertiesOf(ths, n))
    ELSE EmptyDict

RECURSIVE RcParamsLoop(_, _, _)
RcParamsLoop(rc, order, ths) ==
    IF order = << >> THEN rc
    ELSE IF ~ths.slots[Head(order)].present THEN RcParamsLoop(rc, Tail(order), ths)
    ELSE RcParamsLoop(DictUpdate(rc, ThemeableRcParams(ths, Head(order))),
                      Tail(order), ths)

\* theme.rcParams
rcParams(t) == RcParamsLoop(t.rc, DictOrder, t.ths)

\* theme.setup, as far as it bears on the theme's own fields: plot, figure,
\* axs and _targets belong to the plot being drawn.
Setup(t) == [ t EXCEPT !.is_setup = TRUE ]

\* Variant of add_theme that merges a complete theme like a partial one.
add_themeAlwaysMerge(self, other) ==
    LET o == IF self.is_setup THEN Setup(other) ELSE other
        s == [ self EXCEPT !.ths = ThemeablesUpdate(self.ths, o.ths) ]
    IN [ self |-> s, other |-> o, out |-> s ]

\* theme.add_theme(other): self is changed in place when other is partial.
\* The result names the three objects afterwards: self, other and the value
\* returned.
add_theme(self, other) ==
    LET o == IF self.is_setup THEN Setup(other) ELSE other
    IN IF o.complete
       THEN [ self |-> self, other |-> o, out |-> o ]
       ELSE LET s == [ self EXCEPT !.ths = ThemeablesUpdate(self.ths, o.ths) ]
            IN [ self |-> s, other |-> o, out |-> s ]

\* Variant of __add__ without the deep copy: self is changed in place.
AddInPlace(self, other) == add_theme(self, other)

\* theme.__add__(other): add_theme on a deep copy of self.
Add(self, other) ==
    LET r == add_theme(self, other)
    IN [ self |-> self, other |-> r.other, out |-> r.out ]

\* theme(dpi=v)
DpiTheme(v) == Theme(FALSE, [ n \in { "dpi" } |-> 1 ], [ i \in { 1 } |-> Scalar(v) ])

\* theme.to_retina(); raised says KeyError (no dpi value in the theme).
to_retina(self) ==
    LET d == property(self.ths, "dpi", "value")
    IN IF d.raised
       THEN [ raised |-> TRUE, self |-> self, out |-> self ]
       ELSE LET r == Add(self, DpiTheme(d.value * 2))
            IN [ raised |-> FALSE, self |-> r.self, out |-> r.out ]

(***************************************************************************)
(* Bounds and inputs                                                       *)
(***************************************************************************)
\* Most keyword arguments of one theme(...) call.
MaxKw == 2

\* Most operations on one theme.
MaxOps == 2

\* Largest dpi that to_retina is still applied to.
MaxDpi == 4

\* The classes the inputs instantiate: two specific themeables of different
\* families, the two overlapping general ones above one of them, the most
\* general one, and a themeable that takes a plain value.
UsedNames ==
    { "axis_line_x", "axis_ticks_major_x", "axis_ticks_major", "axis_ticks_x",
      "line", "dpi" }

ElementNames == UsedNames \ { "dpi" }

\* The element objects given to the element_line themeables.
Elements ==
    { ElementLine([ color |-> 1 ]),
      ElementLine([ color |-> NoneV, linewidth |-> 1 ]),
      ElementBlank }

DpiValues == { Scalar(1), Scalar(2) }

Objects == Elements \cup DpiValues

\* A theme(...) call with at most MaxKw keyword arguments; dpi takes a plain
\* number and the line themeables take elements.
KwargsOK(kwargs, objs) ==
    /\ \A n \in DOMAIN kwargs :
          IF n = "dpi" THEN objs[kwargs[n]] \in DpiValues
          ELSE objs[kwargs[n]] \in Elements
    /\ \A i \in DOMAIN objs : \E n \in DOMAIN kwargs : kwargs[n] = i

ThemesOf(complete) ==
    UNION { UNION { { Theme(complete, kwargs, objs) :
                        objs \in { o \in [ 1..k -> Objects ] :
                                     \A kw \in { kwargs } : KwargsOK(kw, o) } } :
                      kwargs \in UNION { [ S -> 1..k ] :
                                          S \in { T \in SUBSET UsedNames : Cardinality(T) <= MaxKw } } } :
            k \in 0..MaxKw }

PartialThemes == ThemesOf(FALSE)

CompleteThemes == ThemesOf(TRUE)

InputThemes == PartialThemes \cup CompleteThemes

\* theme.P(name, key)
P(t, name, key) == property(t.ths, name, key)

\* Property names looked up, and the defaults handed to getp.
Props == { "color", "linewidth", "value" }

Defaults == { NoneV, 7 }

(***************************************************************************)
(* theme(...) with any keyword arguments                                   *)
(***************************************************************************)
\* None given as the value of a keyword.
NoneObj == Scalar(NoneV)

\* themeable._registry holds every themeable class.  Two of them are no
\* parameter of theme.__init__ and reach it through **kwargs: the intermediate
\* class text_themeable and the deprecated legend_title_align.
Unofficial == { "text_themeable", "legend_title_align" }

Registered == Names \cup Unofficial

\* legend_title_align.__init__(self) takes no element.
NoElementInit == { "legend_title_align" }

\* themeable.from_class_name(name, theme_element)
from_class_name(name, element) ==
    IF name \notin Registered
    THEN [ raised |-> "PlotnineError", cls |-> "", element |-> NoneObj ]
    ELSE IF name \in NoElementInit
         THEN [ raised |-> "TypeError", cls |-> "", element |-> NoneObj ]
    ELSE [ raised |-> "", cls |-> name, element |-> element ]

\* theme.__init__: the loop over **kwargs, which holds the keywords that are
\* no parameter; made collects the themeables it stores.
RECURSIVE KwargsLoop(_, _, _)
KwargsLoop(extra, i, made) ==
    IF i > Len(extra) THEN [ raised |-> "", made |-> made ]
    ELSE LET r == from_class_name(extra[i].name, extra[i].value)
         IN IF r.raised # "" THEN [ raised |-> r.raised, made |-> made ]
            ELSE KwargsLoop(extra, i + 1,
                            made \cup { [ cls |-> r.cls, element |-> r.element ] })

\* theme(complete, **kwargs) for any keywords: kwargs and objs give the
\* keywords that are parameters (None included), extra the others in the
\* order they were written.  The themeables of the classes outside Names are
\* returned apart, in made.
theme_init(complete, kwargs, objs, extra) ==
    LET given == { n \in DOMAIN kwargs : objs[kwargs[n]] # NoneObj }
        rest == KwargsLoop(extra, 1, {})
    IN [ raised |-> rest.raised,
         theme  |-> Theme(complete, [ n \in given |-> kwargs[n] ], objs),
         made   |-> rest.made ]

\* The names of S in the order of ClassOrder.
SortedNames(S) == SelectSeq(ClassOrder, LAMBDA n : n \in S)

\* Keywords that are no parameter of theme.__init__: the unofficial classes
\* and a name that no class has; and the values given for them.
ExtraNames == Unofficial \cup { "no_such_themeable" }

ExtraValues == { NoneObj, Scalar(1) }

RECURSIVE SeqsOver(_, _)
SeqsOver(S, k) ==
    IF k = 0 THEN { << >> }
    ELSE SeqsOver(S, k - 1)
           \cup { Append(q, x) : q \in { r \in SeqsOver(S, k - 1) : Len(r) = k - 1 },
                                  x \in S }

\* The **kwargs of a call: distinct names, in the order written.
Extras ==
    { q \in SeqsOver([ name : ExtraNames, value : ExtraValues ], MaxKw) :
        \A i, j \in DOMAIN q : q[i].name = q[j].name => i = j }

\* The values of the parameters of a call: an element or None for a line
\* themeable, a number or None for dpi, every object given to some keyword.
ArgsOK(kwargs, objs) ==
    /\ \A n \in DOMAIN kwargs :
          IF n = "dpi" THEN objs[kwargs[n]] \in DpiValues \cup { NoneObj }
          ELSE objs[kwargs[n]] \in Elements \cup { NoneObj }
    /\ \A i \in DOMAIN objs : \E n \in DOMAIN kwargs : kwargs[n] = i

\* The calls theme(**kwargs) with at most MaxKw keywords, each parameter
\* given an object of its own.
ThemeCalls ==
    UNION { { [ kwargs |-> [ n \in S |-> IndexOf(SortedNames(S), n) ], objs |-> o, extra |-> q ] :
                o \in { f \in [ 1..Cardinality(S) -> Objects \cup { NoneObj } ] :
                          ArgsOK([ n \in S |-> IndexOf(SortedNames(S), n) ], f) },
                q \in { e \in Extras : Cardinality(S) + Len(e) <= MaxKw } } :
            S \in { T \in SUBSET UsedNames : Cardinality(T) <= MaxKw } }

(***************************************************************************)
(* The current theme: theme_get, theme_set, theme_update                   *)
(***************************************************************************)
\* The values of the option "current_theme": None, a theme instance or a
\* theme class.  The values handed to theme_set may also be a class that is
\* no theme ("other_class") or an object that is neither ("other_object").
NoTheme == [ kind |-> "none", cls |-> "", theme |-> Theme(FALSE, EmptyDict, EmptyDict) ]

InstanceOf(t) == [ kind |-> "instance", cls |-> "", theme |-> t ]

ClassOf(c) == [ kind |-> c, cls |-> c, theme |-> Theme(FALSE, EmptyDict, EmptyDict) ]

ThemeClass(c) == [ kind |-> "class", cls |-> c, theme |-> Theme(FALSE, EmptyDict, EmptyDict) ]

\* theme_gray(): a complete theme; of its themeables the model keeps a line,
\* a blank axis line and the dpi.
theme_gray ==
    Theme(TRUE,
          [ n \in { "line", "axis_line_x", "dpi" } |->
              CASE n = "line" -> 1 [] n = "axis_line_x" -> 2 [] n = "dpi" -> 3 ],
          << ElementLine([ color |-> 1, linewidth |-> 1 ]), ElementBlank, Scalar(1) >>)

\* cls(): a new instance of a theme class.
Instantiate(c) == IF c = "theme_gray" THEN theme_gray ELSE Theme(FALSE, EmptyDict, EmptyDict)

\* theme_get() with the option holding opt; a theme instance is truthy.
theme_get(opt) ==
    LET t == IF opt.kind = "class" THEN InstanceOf(Instantiate(opt.cls)) ELSE opt
    IN IF t.kind = "none" THEN theme_gray ELSE t.theme

\* Variant of theme_set that returns the theme it was given.
theme_setReturnsNew(opt, new) ==
    IF new.kind = "other_object" THEN [ raised |-> "TypeError", opt |-> opt, out |-> NoTheme ]
    ELSE IF new.kind = "other_class"
         THEN [ raised |-> "PlotnineError", opt |-> opt, out |-> NoTheme ]
    ELSE [ raised |-> "", opt |-> new, out |-> new ]

\* theme_set(new) with the option holding opt: issubclass raises TypeError for
\* an object that is no class.
theme_set(opt, new) ==
    IF new.kind = "other_object" THEN [ raised |-> "TypeError", opt |-> opt, out |-> NoTheme ]
    ELSE IF new.kind = "other_class"
         THEN [ raised |-> "PlotnineError", opt |-> opt, out |-> NoTheme ]
    ELSE [ raised |-> "", opt |-> new, out |-> opt ]

\* theme_update(**kwargs), kw being theme(**kwargs)
theme_update(opt, kw) == theme_set(opt, InstanceOf(Add(theme_get(opt), kw).out))

\* The values handed to theme_set.
SetInputs ==
    { InstanceOf(t) : t \in InputThemes }
      \cup { ThemeClass("theme"), ThemeClass("theme_gray"),
             ClassOf("other_class"), ClassOf("other_object") }

(***************************************************************************)
(* scale_position_discrete                                                 *)
(*                                                                         *)
(* Numbers are kept as twice their value, so that the halves expand_range  *)
(* produces stay integers.                                                 *)
(***************************************************************************)
\* None, and a value that is not None.
NoneR == [ some |-> FALSE, v |-> << >> ]

Some(v) == [ some |-> TRUE, v |-> v ]

Min(S) == CHOOSE x \in S : \A y \in S : x <= y

Max(S) == CHOOSE x \in S : \A y \in S : x >= y

RECURSIVE SortedSeq(_)
SortedSeq(S) == IF S = {} THEN << >> ELSE << Min(S) >> \o SortedSeq(S \ { Min(S) })

\* RangeContinuous.train: the range over the old range and the series.
RangeContinuousTrain(rng, series) ==
    LET all == series \cup (IF rng.some THEN { rng.v[1], rng.v[2] } ELSE {})
    IN Some(<< Min(all), Max(all) >>)

\* RangeDiscrete.train: the sorted distinct values of the old range and the
\* series.
RangeDiscreteTrain(rng, series) ==
    Some(SortedSeq(series \cup (IF rng.some THEN Range(rng.v) ELSE {})))

\* scale_position_discrete.is_empty
is_empty(sc) == ~sc.range.some /\ ~sc.limits.some /\ ~sc.range_c.some

\* The kind of a series' dtype: one of CONTINUOUS_KINDS, one of DISCRETE_KINDS,
\* or neither (a datetime, say).
Kinds == { "continuous", "discrete", "other" }

\* Variant of train that trains both ranges.
trainBoth(sc, kind, series) ==
    [ sc EXCEPT !.range_c = RangeContinuousTrain(sc.range_c, series),
                !.range = RangeDiscreteTrain(sc.range, series) ]

\* scale_position_discrete.train
train(sc, kind, series) ==
    IF kind = "continuous"
    THEN [ sc EXCEPT !.range_c = RangeContinuousTrain(sc.range_c, series) ]
    ELSE [ sc EXCEPT !.range = RangeDiscreteTrain(sc.range, series) ]

\* scale_position_discrete.reset
reset(sc) == [ sc EXCEPT !.range_c = NoneR ]

\* mizani.bounds.expand_range(range, mul, add, zero_width) on a pair of
\* numbers, in doubled values.
expand_range(x, mul, add, zero_width) ==
    IF x[1] = x[2]
    THEN << x[1] - zero_width, x[1] + zero_width >>
    ELSE LET dx == (x[2] - x[1]) * mul + 2 * add
         IN << x[1] - dx, x[2] + dx >>

\* scale_position_discrete.dimension(expand).  Both expansions are computed
\* before the cases are told apart: len(d_range) raises TypeError when no
\* discrete range was trained, and expand_range is handed None when no
\* continuous range was trained, which the library either takes (noneOK, the
\* value is then not used in the cases that follow) or answers with TypeError.
dimension(sc, expand, noneOK) ==
    LET c_range == sc.range_c
        d_range == sc.range
        err == [ raised |-> TRUE, out |-> << 0, 0 >> ]
        ok(v) == [ raised |-> FALSE, out |-> v ]
    IN IF ~c_range.some /\ ~noneOK THEN err
       ELSE IF ~d_range.some THEN err
       ELSE LET discrete == expand_range(<< 2 * 1, 2 * Len(d_range.v) >>, 0, expand[2], 1)
            IN IF is_empty(sc) THEN ok(<< 0, 2 >>)
               ELSE IF ~c_range.some THEN ok(discrete)
               ELSE LET continuous == expand_range(c_range.v, expand[1], 0, 1)
                        a == { continuous[1], continuous[2], discrete[1], discrete[2] }
                    IN ok(<< Min(a), Max(a) >>)

\* Largest discrete value and largest number in a series.
MaxCat == 3

MaxNum == 2

\* Series of discrete values (categories 1..MaxCat) and of numbers, doubled.
DiscreteSeries == SUBSET (1..MaxCat) \ { {} }

ContinuousSeries == SUBSET { 2 * i : i \in 0..MaxNum } \ { {} }

\* The limits argument of the constructor: None or a list of categories.
LimitsInputs == { NoneR, Some(<< 1, 2 >>), Some(<< 2, 1, 3 >>) }

Expands == { << 0, 0 >>, << 1, 0 >>, << 0, 1 >>, << 1, 1 >> }

\* The truth value of a list or of None.
TruthyR(x) == x.some /\ Len(x.v) > 0

\* scale_position_discrete.limits: (0, 1) for an empty scale, the limits the
\* user set, else the discrete range, else GgplotError.  The values are
\* compared, not computed with, and are kept as they are.
limits(sc) ==
    IF is_empty(sc) THEN [ raised |-> FALSE, out |-> << 0, 1 >> ]
    ELSE IF TruthyR(sc.limits) THEN [ raised |-> FALSE, out |-> sc.limits.v ]
    ELSE IF TruthyR(sc.range) THEN [ raised |-> FALSE, out |-> sc.range.v ]
    ELSE [ raised |-> TRUE, out |-> << >> ]

\* match(v1, v2): for each element of v1 the 0-based position of its first
\* occurrence in v2, -1 when there is none.
match(v1, v2) ==
    [ i \in DOMAIN v1 |->
        IF v1[i] \in Range(v2) THEN IndexOf(v2, v1[i]) - 1 ELSE -1 ]

\* seq[idx] for a numpy array seq and a list idx of positions, a negative
\* position counting from the end.
TakeAt(seq, idx) ==
    [ i \in DOMAIN idx |-> IF idx[i] >= 0 THEN seq[idx[i] + 1]
                           ELSE seq[Len(seq) + idx[i] + 1] ]

\* scale_position_discrete.map(series, limits): the limits of the scale are
\* looked up, and may raise, before the kind of the series is looked at.
map(sc, kind, series, lim) ==
    LET own == limits(sc)
    IN IF ~TruthyR(lim) /\ own.raised THEN [ raised |-> TRUE, out |-> << >> ]
       ELSE LET l == IF TruthyR(lim) THEN lim.v ELSE own.out
                seq == [ i \in 1..Len(l) |-> i ]
            IN IF kind = "discrete"
               THEN [ raised |-> FALSE, out |-> TakeAt(seq, match(series, l)) ]
               ELSE [ raised |-> FALSE, out |-> series ]

\* Longest series handed to map.
MaxSeries == 1

\* The series handed to map, and its limits argument: None, an empty list or
\* a list of categories.
MapSeries == UNION { [ 1..k -> 0..MaxCat ] : k \in 1..MaxSeries }

MapLimits == { NoneR, Some(<< >>), Some(<< 2, 1 >>), Some(<< 1, 2, 3 >>) }

(***************************************************************************)
(* State                                                                   *)
(***************************************************************************)
VARIABLES
    thm,     \* a theme object the program holds
    last,    \* the last operation on thm: its operands and what it returned
    nops,    \* operations applied to thm so far
    ths,     \* a Themeables collection
    tlast,   \* the last operation on ths
    tops,    \* updates applied to ths so far
    current_theme,  \* the option "current_theme"
    setlog,  \* the argument of the latest theme_set call that returned
    rlast,   \* the last call of theme_get, theme_set or theme_update
    rops,    \* calls of theme_set and theme_update so far
    scale,   \* a scale_position_discrete: range, range_c, _limits
    slast    \* the last call on scale

themeVars == << thm, last, nops >>

collVars == << ths, tlast, tops >>

regVars == << current_theme, setlog, rlast, rops >>

scaleVars == << scale, slast >>

vars == << thm, last, nops, ths, tlast, tops, current_theme, setlog, rlast, rops,
           scale, slast >>

Init ==
    /\ thm = Theme(FALSE, EmptyDict, EmptyDict)
    /\ last = [ op |-> "init" ]
    /\ nops = 0
    /\ ths = EmptyThemeables
    /\ tlast = [ op |-> "init" ]
    /\ tops = 0
    /\ current_theme = NoTheme
    /\ setlog = NoTheme
    /\ rlast = [ op |-> "init" ]
    /\ rops = 0
    /\ scale = [ range |-> NoneR, range_c |-> NoneR, limits |-> NoneR ]
    /\ slast = [ op |-> "init" ]

(***************************************************************************)
(* Operations on a theme                                                   *)
(***************************************************************************)
\* A run applies operations to thm and ends with one lookup.
Running == last.op \in { "init", "add", "to_retina", "setup" }

\* thm = thm + other
OpAdd(other) ==
    /\ Running
    /\ nops < MaxOps
    /\ LET r == Add(thm, other)
       IN /\ last' = [ op |-> "add", pre |-> thm, arg |-> other,
                       self |-> r.self, out |-> r.out ]
          /\ thm' = r.out
    /\ nops' = nops + 1
    /\ UNCHANGED << collVars, regVars, scaleVars >>

\* thm = thm.to_retina()
OpToRetina ==
    /\ Running
    /\ nops < MaxOps
    /\ getp(thm.ths, "dpi", "value", 0) <= MaxDpi
    /\ LET r == to_retina(thm)
       IN /\ last' = [ op |-> "to_retina", pre |-> thm, raised |-> r.raised,
                       self |-> r.self, out |-> r.out ]
          /\ thm' = r.out
    /\ nops' = nops + 1
    /\ UNCHANGED << collVars, regVars, scaleVars >>

\* thm.setup(plot)
OpSetup ==
    /\ Running
    /\ ~thm.is_setup
    /\ thm' = Setup(thm)
    /\ last' = [ op |-> "setup" ]
    /\ UNCHANGED << nops, collVars, regVars, scaleVars >>

\* thm.P(name, key)
OpP(name, key) ==
    /\ Running
    /\ last' = [ op |-> "P", name |-> name, key |-> key, out |-> P(thm, name, key) ]
    /\ UNCHANGED << thm, nops, collVars, regVars, scaleVars >>

ThemeNext ==
    \/ \E other \in InputThemes : OpAdd(other)
    \/ OpToRetina
    \/ OpSetup
    \/ \E name \in { "dpi", "axis_ticks_major_x" }, key \in { "value", "color" } :
          OpP(name, key)

Spec == Init /\ [][ThemeNext]_vars

(***************************************************************************)
(* Construction of a theme                                                 *)
(***************************************************************************)
\* A run makes one call.
Fresh == last.op = "init"

\* thm = theme(complete, **kwargs)
OpTheme(complete, call) ==
    /\ Fresh
    /\ LET r == theme_init(complete, call.kwargs, call.objs, call.extra)
       IN /\ thm' = IF r.raised = "" THEN r.theme ELSE thm
          /\ last' = [ op |-> "theme", complete |-> complete, call |-> call,
                       raised |-> r.raised, out |-> r.theme, made |-> r.made ]
    /\ UNCHANGED << nops, collVars, regVars, scaleVars >>

\* themeable.from_class_name(name, element)
OpFromClassName(name, element) ==
    /\ Fresh
    /\ last' = [ op |-> "from_class_name", name |-> name, element |-> element,
                 res |-> from_class_name(name, element) ]
    /\ UNCHANGED << thm, nops, collVars, regVars, scaleVars >>

ConstructNext ==
    \/ \E complete \in BOOLEAN, call \in ThemeCalls : OpTheme(complete, call)
    \/ \E name \in UsedNames \cup ExtraNames, element \in Objects \cup { NoneObj } :
          OpFromClassName(name, element)

SpecConstruct == Init /\ [][ConstructNext]_vars

(***************************************************************************)
(* Operations on a Themeables collection                                   *)
(***************************************************************************)
\* A run updates ths and ends with one lookup.
Updating == tlast.op \in { "init", "update" }

\* ths.update(other)
OpUpdate(other) ==
    /\ Updating
    /\ tops < MaxOps
    /\ ths' = ThemeablesUpdate(ths, other)
    /\ tlast' = [ op |-> "update", pre |-> ths, arg |-> other ]
    /\ tops' = tops + 1
    /\ UNCHANGED << themeVars, regVars, scaleVars >>

\* ths.getp((name, prop), default), or ths.getp(name, default) when str
OpGetp(name, prop, default, str) ==
    /\ Updating
    /\ str => prop = "value"
    /\ tlast' = [ op |-> "getp", name |-> name, prop |-> prop,
                  default |-> default, str |-> str,
                  out |-> IF str THEN getpStr(ths, name, default)
                          ELSE getp(ths, name, prop, default) ]
    /\ UNCHANGED << ths, tops, themeVars, regVars, scaleVars >>

\* ths.property(name, key)
OpProperty(name, key) ==
    /\ Updating
    /\ tlast' = [ op |-> "property", name |-> name, key |-> key,
                  out |-> property(ths, name, key) ]
    /\ UNCHANGED << ths, tops, themeVars, regVars, scaleVars >>

\* ths.is_blank(name)
OpIsBlank(name) ==
    /\ Updating
    /\ tlast' = [ op |-> "is_blank", name |-> name, out |-> is_blank(ths, name) ]
    /\ UNCHANGED << ths, tops, themeVars, regVars, scaleVars >>

ThemeablesNext ==
    \/ \E t \in PartialThemes : OpUpdate(t.ths)
    \/ \E name \in UsedNames, prop \in Props, default \in Defaults, str \in BOOLEAN :
          OpGetp(name, prop, default, str)
    \/ \E name \in UsedNames, key \in Props : OpProperty(name, key)
    \/ \E name \in UsedNames : OpIsBlank(name)

SpecThemeables == Init /\ [][ThemeablesNext]_vars

(***************************************************************************)
(* Calls on the current theme                                              *)
(***************************************************************************)
\* Most calls of theme_set and theme_update in one run.
MaxCalls == 2

\* A run makes calls that set the current theme and ends with one theme_get.
Setting == rlast.op \in { "init", "theme_set", "theme_update" }

\* theme_set(new)
OpThemeSet(new) ==
    /\ Setting
    /\ rops < MaxCalls
    /\ LET r == theme_set(current_theme, new)
       IN /\ current_theme' = r.opt
          /\ setlog' = IF r.raised = "" THEN new ELSE setlog
          /\ rlast' = [ op |-> "theme_set", arg |-> new, preceding |-> setlog,
                        raised |-> r.raised, out |-> r.out ]
    /\ rops' = rops + 1
    /\ UNCHANGED << themeVars, collVars, scaleVars >>

\* theme_get()
OpThemeGet ==
    /\ Setting
    /\ rlast' = [ op |-> "theme_get", out |-> theme_get(current_theme) ]
    /\ UNCHANGED << current_theme, setlog, rops, themeVars, collVars, scaleVars >>

\* theme_update(**kwargs), kw being theme(**kwargs)
OpThemeUpdate(kw) ==
    /\ Setting
    /\ rops < MaxCalls
    /\ LET r == theme_update(current_theme, kw)
       IN /\ current_theme' = r.opt
          /\ setlog' = InstanceOf(Add(theme_get(current_theme), kw).out)
          /\ rlast' = [ op |-> "theme_update", kw |-> kw,
                        before |-> theme_get(current_theme) ]
    /\ rops' = rops + 1
    /\ UNCHANGED << themeVars, collVars, scaleVars >>

RegisterNext ==
    \/ \E new \in SetInputs : OpThemeSet(new)
    \/ OpThemeGet
    \/ \E kw \in PartialThemes : OpThemeUpdate(kw)

SpecRegister == Init /\ [][RegisterNext]_vars

(***************************************************************************)
(* Calls on the scale                                                      *)
(***************************************************************************)
\* scale_position_discrete(limits=...)
InitScale ==
    /\ thm = Theme(FALSE, EmptyDict, EmptyDict)
    /\ last = [ op |-> "init" ]
    /\ nops = 0
    /\ ths = EmptyThemeables
    /\ tlast = [ op |-> "init" ]
    /\ tops = 0
    /\ current_theme = NoTheme
    /\ setlog = NoTheme
    /\ rlast = [ op |-> "init" ]
    /\ rops = 0
    /\ \E lim \in LimitsInputs :
          scale = [ range |-> NoneR, range_c |-> NoneR, limits |-> lim ]
    /\ slast = [ op |-> "init" ]

\* A run trains, resets and measures the scale and ends with one map, which
\* leaves the scale as it is.
Mapping == slast.op # "map"

\* The series are mapped once the scale was measured: map follows a call of
\* dimension, or the construction.
Measured == slast.op \in { "init", "dimension" }

\* scale.train(series)
OpTrain(kind, series) ==
    /\ Mapping
    /\ scale' = train(scale, kind, series)
    /\ slast' = [ op |-> "train", kind |-> kind, series |-> series, pre |-> scale ]
    /\ UNCHANGED << themeVars, collVars, regVars >>

\* scale.reset()
OpReset ==
    /\ Mapping
    /\ scale' = reset(scale)
    /\ slast' = [ op |-> "reset" ]
    /\ UNCHANGED << themeVars, collVars, regVars >>

\* scale.map(series, limits)
OpMap(kind, series, lim) ==
    /\ Measured
    /\ slast' = [ op |-> "map", kind |-> kind, series |-> series, limits |-> lim,
                  res |-> map(scale, kind, series, lim) ]
    /\ UNCHANGED << scale, themeVars, collVars, regVars >>

\* scale.dimension(expand)
OpDimension(expand, noneOK) ==
    /\ Mapping
    /\ slast' = [ op |-> "dimension", expand |-> expand,
                  res |-> dimension(scale, expand, noneOK) ]
    /\ UNCHANGED << scale, themeVars, collVars, regVars >>

ScaleNext ==
    \/ \E series \in ContinuousSeries : OpTrain("continuous", series)
    \/ \E series \in DiscreteSeries : OpTrain("discrete", series)
    \/ \E series \in DiscreteSeries : OpTrain("other", series)
    \/ OpReset
    \/ \E kind \in Kinds, series \in MapSeries, lim \in MapLimits :
          OpMap(kind, series, lim)
    \/ \E expand \in Expands, noneOK \in BOOLEAN : OpDimension(expand, noneOK)

SpecScale == InitScale /\ [][ScaleNext]_vars

(***************************************************************************)
(* Properties of theme addition                                            *)
(***************************************************************************)
\* The themeables of two themes are the same: the same names, each with the
\* same blankness and the same properties.
SameThemeables(t1, t2) ==
    \A n \in Names :
       /\ t1.ths.slots[n].present = t2.ths.slots[n].present
       /\ t1.ths.slots[n].present =>
             /\ t1.ths.slots[n].blank = t2.ths.slots[n].blank
             /\ PropertiesOf(t1.ths, n) = PropertiesOf(t2.ths, n)

\* C1: adding a complete theme b to any theme a gives a complete theme whose
\* themeables and rcParams are exactly those of b.
C1_CompleteAnnihilates ==
    (last.op = "add" /\ last.arg.complete) =>
       /\ last.out.complete
       /\ SameThemeables(last.out, last.arg)
       /\ last.out.ths = last.arg.ths
       /\ rcParams(last.out) = rcParams(last.arg)

\* A complete theme was added to a theme that held themeables and rcParams
\* the complete theme does not have.
C1_Witness ==
    /\ last.op = "add"
    /\ last.arg.complete
    /\ PresentNames(last.pre.ths) \ PresentNames(last.arg.ths) # {}
    /\ "figure.dpi" \in DOMAIN rcParams(last.pre)
    /\ "figure.dpi" \notin DOMAIN rcParams(last.out)

\* No two themeables of the theme hold the same properties dict: they were
\* built from distinct element objects.
DistinctElements(t) ==
    \A n, m \in PresentNames(t.ths) :
       n # m => t.ths.slots[n].cell # t.ths.slots[m].cell

\* The class n is neither named in the theme p nor in the mro of a class named
\* in p.
Unrelated(n, p) ==
    /\ ~p.ths.slots[n].present
    /\ \A m \in PresentNames(p.ths) : n \notin Range(mro[m])

\* The themeable n is in both themes with the same blankness and properties.
Retained(n, before, after) ==
    /\ after.ths.slots[n].present
    /\ after.ths.slots[n].blank = before.ths.slots[n].blank
    /\ PropertiesOf(after.ths, n) = PropertiesOf(before.ths, n)

\* C2: adding a partial theme p to a theme t built from distinct element
\* objects keeps t's complete flag and base rcParams, and keeps unchanged
\* every themeable of t that is unrelated to the classes named in p.
C2_PartialFrame ==
    (last.op = "add" /\ ~last.arg.complete /\ DistinctElements(last.pre)) =>
       /\ last.out.complete = last.pre.complete
       /\ last.out.rc = last.pre.rc
       /\ \A n \in PresentNames(last.pre.ths) :
             Unrelated(n, last.arg) => Retained(n, last.pre, last.out)

\* A partial theme changed one themeable of a complete theme built from
\* distinct elements and left another, unrelated one in place.
C2_Witness ==
    /\ last.op = "add"
    /\ ~last.arg.complete
    /\ last.pre.complete
    /\ DistinctElements(last.pre)
    /\ \E n, m \in PresentNames(last.pre.ths) :
          /\ Unrelated(n, last.arg)
          /\ m \in PresentNames(last.arg.ths)
          /\ ~last.pre.ths.slots[m].blank
          /\ ~last.arg.ths.slots[m].blank
          /\ PropertiesOf(last.out.ths, m) # PropertiesOf(last.pre.ths, m)

\* C9: to_retina returns a theme with twice the dpi and all other themeables
\* as in the original, and the original theme keeps its dpi.
C9_ToRetina ==
    (last.op = "to_retina" /\ ~last.raised) =>
       LET d == PropertiesOf(last.pre.ths, "dpi")["value"]
       IN /\ last.out.ths.slots["dpi"].present
          /\ PropertiesOf(last.out.ths, "dpi")["value"] = 2 * d
          /\ \A n \in Names \ { "dpi" } :
                /\ last.out.ths.slots[n].present = last.pre.ths.slots[n].present
                /\ last.pre.ths.slots[n].present => Retained(n, last.pre, last.out)
          /\ last.self = last.pre
          /\ PropertiesOf(last.self.ths, "dpi")["value"] = d

\* to_retina was applied to a theme that has a dpi and other themeables.
C9_Witness ==
    /\ last.op = "to_retina"
    /\ ~last.raised
    /\ PresentNames(last.pre.ths) \ { "dpi" } # {}
    /\ PropertiesOf(last.out.ths, "dpi")["value"] = 4

(***************************************************************************)
(* Properties of the Themeables collection                                 *)
(***************************************************************************)
\* The themeables of the hierarchy of name that are in the collection, as
\* positions in the hierarchy list.
PresentIn(c, name) ==
    { i \in DOMAIN hierarchy[name] : c.slots[hierarchy[name][i]].present }

\* Those among them that have prop among their properties.
HavingProp(c, name, prop) ==
    { i \in PresentIn(c, name) : prop \in DOMAIN PropertiesOf(c, hierarchy[name][i]) }

Least(S) == CHOOSE i \in S : \A j \in S : i <= j

\* The value of prop in the first themeable of the hierarchy of name that has
\* it, default when there is none.
FirstValue(c, name, prop, default) ==
    IF HavingProp(c, name, prop) = {} THEN default
    ELSE PropertiesOf(c, hierarchy[name][Least(HavingProp(c, name, prop))])[prop]

\* The original statement of C3: after update with one new themeable of class
\* G, every class D in the mro of G yields new's value for every property new
\* defines, and is as blank as new.
C3_GeneralOverrides ==
    (tlast.op = "update" /\ Cardinality(PresentNames(tlast.arg)) = 1) =>
       LET G == CHOOSE n \in Names : tlast.arg.slots[n].present
           new == PropertiesOf(tlast.arg, G)
       IN \A D \in Range(mro[G]) :
             /\ \A p \in DOMAIN new : getp(ths, D, p, 7) = new[p]
             /\ is_blank(ths, D) = tlast.arg.slots[G].blank

C5_PropertyRaises ==
    (tlast.op = "property") =>
       /\ tlast.out.raised <=> HavingProp(ths, tlast.name, tlast.key) = {}
       /\ ~tlast.out.raised =>
             /\ tlast.out.value = getp(ths, tlast.name, tlast.key, NoneV)
             /\ tlast.out.value = FirstValue(ths, tlast.name, tlast.key, NoneV)

\* property returned None, found in a more general themeable.
C5_Witness ==
    /\ tlast.op = "property"
    /\ ~tlast.out.raised
    /\ tlast.out.value = NoneV
    /\ Least(HavingProp(ths, tlast.name, tlast.key)) >= 2

\* C6: is_blank returns the blankness of the first themeable of the hierarchy
\* that is present, False when none is.
C6_IsBlank ==
    (tlast.op = "is_blank") =>
       tlast.out = IF PresentIn(ths, tlast.name) = {} THEN FALSE
                   ELSE ths.slots[hierarchy[tlast.name][Least(PresentIn(ths, tlast.name))]].blank

\* is_blank fell back to a more general themeable that is not blank, while a
\* still more general one is blank.
C6_Witness ==
    /\ tlast.op = "is_blank"
    /\ ~tlast.out
    /\ PresentIn(ths, tlast.name) # {}
    /\ Least(PresentIn(ths, tlast.name)) >= 2
    /\ \E i \in PresentIn(ths, tlast.name) : ths.slots[hierarchy[tlast.name][i]].blank

(***************************************************************************)
(* Properties of the current theme                                         *)
(***************************************************************************)
\* C7: the current theme is a single register: theme_set returns the argument
\* of the preceding theme_set call (None before the first), and theme_get
\* returns the theme most recently set, a new instance when a class was set,
\* and a theme_gray when none was set.
C7_Register ==
    /\ (rlast.op = "theme_set" /\ rlast.raised = "") => rlast.out = rlast.preceding
    /\ (rlast.op = "theme_get") =>
          rlast.out = CASE setlog.kind = "none"     -> theme_gray
                        [] setlog.kind = "instance" -> setlog.theme
                        [] setlog.kind = "class"    -> Instantiate(setlog.cls)

\* The second theme_set call returned the theme class given to the first.
C7_Witness ==
    /\ rlast.op = "theme_set"
    /\ rlast.raised = ""
    /\ rlast.out.kind = "class"
    /\ rlast.arg.kind = "instance"
    /\ rlast.arg.theme.complete
    /\ current_theme = rlast.arg

\* The themeable n of the theme after has every value that kw gives for n.
HasGivenValues(n, kw, after) ==
    /\ after.ths.slots[n].present
    /\ after.ths.slots[n].blank = kw.ths.slots[n].blank
    /\ \A p \in DOMAIN PropertiesOf(kw.ths, n) :
          /\ p \in DOMAIN PropertiesOf(after.ths, n)
          /\ PropertiesOf(after.ths, n)[p] = PropertiesOf(kw.ths, n)[p]

\* The class n has nothing in common with the classes named in the theme p:
\* it is unrelated to them, none of them is in its mro, and its mro shares no
\* class with theirs.
Apart(n, p) ==
    /\ Unrelated(n, p)
    /\ \A m \in PresentNames(p.ths) : Range(mro[n]) \cap Range(mro[m]) = {}

\* The original statement of C8: after theme_update(**kwargs), theme_get() has
\* the given values for every themeable named in kwargs, keeps unchanged every
\* themeable of the previous current theme that is unrelated to them (read
\* narrowly: that has nothing in common with them), and keeps the completeness
\* of the previous current theme.
C8_ThemeUpdate ==
    (rlast.op = "theme_update") =>
       LET after == theme_get(current_theme)
       IN /\ \A n \in PresentNames(rlast.kw.ths) : HasGivenValues(n, rlast.kw, after)
          /\ \A n \in PresentNames(rlast.before.ths) :
                Apart(n, rlast.kw) => Retained(n, rlast.before, after)
          /\ after.complete = rlast.before.complete

\* The statement of C8 for a current theme whose themeables share no
\* properties dict.
C8_ThemeUpdateDistinct ==
    (rlast.op = "theme_update" /\ DistinctElements(rlast.before)) => C8_ThemeUpdate

(***************************************************************************)
(* Properties of the scale                                                 *)
(***************************************************************************)
\* The original statement of C10: dimension never raises and returns (0, 1)
\* for an empty scale, the expanded continuous range when only continuous data
\* was trained, the expanded (1, number of discrete values) when only discrete
\* data was trained, and the (min, max) over both otherwise.
C10_DimensionTotal ==
    (slast.op = "dimension") =>
       LET c == scale.range_c
           d == scale.range
           e == slast.expand
           cont == expand_range(c.v, e[1], 0, 1)
           disc == expand_range(<< 2, 2 * Len(d.v) >>, 0, e[2], 1)
       IN /\ ~slast.res.raised
          /\ is_empty(scale) => slast.res.out = << 0, 2 >>
          /\ (c.some /\ ~d.some) => slast.res.out = cont
          /\ (d.some /\ ~c.some) => slast.res.out = disc
          /\ (c.some /\ d.some) =>
                slast.res.out = << Min({ cont[1], disc[1] }), Max({ cont[2], disc[2] }) >>

\* The limits map works with: its argument when given and not empty, else the
\* limits of the scale.
UsedLimits == IF TruthyR(slast.limits) THEN slast.limits.v ELSE limits(scale).out

\* The limits map works with are known: given, or the scale has them.
LimitsKnown == TruthyR(slast.limits) \/ ~limits(scale).raised

\* A series of discrete kind whose values all occur in the limits is mapped
\* to the 1-based positions of its values in the limits.
MapsToPositions ==
    (slast.kind = "discrete" /\ LimitsKnown
       /\ \A i \in DOMAIN slast.series : slast.series[i] \in Range(UsedLimits)) =>
       /\ ~slast.res.raised
       /\ DOMAIN slast.res.out = DOMAIN slast.series
       /\ \A i \in DOMAIN slast.series :
             /\ slast.res.out[i] \in 1..Len(UsedLimits)
             /\ UsedLimits[slast.res.out[i]] = slast.series[i]

\* The original statement of C11: map sends a series of discrete kind whose
\* values all occur in the limits to the 1-based positions of its values in
\* the limits, and returns a series that is not of discrete kind unchanged.
C11_MapPositions ==
    (slast.op = "map") =>
       /\ MapsToPositions
       /\ slast.kind # "discrete" =>
             /\ ~slast.res.raised
             /\ slast.res.out = slast.series

\* The statement of C11 for calls in which the limits are known.
C11_MapKnownLimits ==
    (slast.op = "map" /\ LimitsKnown) => C11_MapPositions

(***************************************************************************)
(* Properties of the construction of a theme                               *)
(***************************************************************************)
\* The keywords of the last call and the value given for each.
KeywordsOf(call) == DOMAIN call.kwargs \cup { call.extra[i].name : i \in DOMAIN call.extra }

ValueOf(call, n) ==
    IF n \in DOMAIN call.kwargs THEN call.objs[call.kwargs[n]]
    ELSE call.extra[CHOOSE i \in DOMAIN call.extra : call.extra[i].name = n].value

\* The theme holds one themeable for each keyword that has a value other than
\* None, of the class of that name and with the element given; it holds none
\* for a parameter given as None, and none that no keyword names.
OnePerGivenKeyword ==
    LET call == last.call
        wanted == { n \in KeywordsOf(call) : ValueOf(call, n) # NoneObj }
        created == PresentNames(last.out.ths) \cup { m.cls : m \in last.made }
    IN /\ wanted \subseteq created
       /\ created \subseteq KeywordsOf(call)
       /\ \A n \in DOMAIN call.kwargs : ValueOf(call, n) = NoneObj => n \notin created
       /\ \A m \in last.made : m.element = ValueOf(call, m.cls)
       /\ \A n \in PresentNames(last.out.ths) :
             /\ last.out.ths.slots[n].blank = ValueOf(call, n).blank
             /\ PropertiesOf(last.out.ths, n) = ValueOf(call, n).props

\* The original statement of C12: theme(...) fails with PlotnineError when a
\* keyword is not the name of a registered themeable, and otherwise creates
\* exactly one themeable for each keyword that has a value other than None,
\* none for a parameter given as None; from_class_name fails with
\* PlotnineError for an unknown name.
C12_Construct ==
    /\ (last.op = "theme") =>
          IF KeywordsOf(last.call) \subseteq Registered
          THEN last.raised = "" /\ OnePerGivenKeyword
          ELSE last.raised = "PlotnineError"
    /\ (last.op = "from_class_name" /\ last.name \notin Registered) =>
          last.res.raised = "PlotnineError"

\* The statement of C12 for calls in which every keyword that names a
\* registered themeable is a parameter of theme.__init__.
C12_ConstructOfficial ==
    (last.op = "theme" /\ KeywordsOf(last.call) \cap Unofficial = {}) => C12_Construct

(***************************************************************************)
(* Properties of training                                                  *)
(***************************************************************************)
\* C13: train hands the series to the continuous range alone when the series
\* is of a continuous kind, and to the discrete range alone otherwise; it
\* never changes both ranges, and never the limits the user set.
C13_TrainDualRange ==
    (slast.op = "train") =>
       /\ scale.limits = slast.pre.limits
       /\ slast.kind = "continuous" =>
             /\ scale.range = slast.pre.range
             /\ scale.range_c = RangeContinuousTrain(slast.pre.range_c, slast.series)
       /\ slast.kind # "continuous" =>
             /\ scale.range_c = slast.pre.range_c
             /\ scale.range = RangeDiscreteTrain(slast.pre.range, slast.series)
       /\ ~(scale.range # slast.pre.range /\ scale.range_c # slast.pre.range_c)

\* A continuous series widened the continuous range of a scale that has user
\* limits and a discrete range of several values.
C13_Witness ==
    /\ slast.op = "train"
    /\ slast.kind = "continuous"
    /\ scale.limits.some
    /\ scale.range.some
    /\ Len(scale.range.v) >= 2
    /\ slast.pre.range_c.some
    /\ scale.range_c # slast.pre.range_c

====
